---- MODULE Spec2Model ----
(***************************************************************************)
(* The cellular-automaton engine of gradwork-ca (src/src/ca.rs) and the    *)
(* structural analysis that consumes its grid (src/src/data.rs).           *)
(*                                                                         *)
(* A grid is a record [width, height, depth, cells]; cells is a function   *)
(* over the 0-based indices 0..width*height*depth-1, as the Vec<CACell> of *)
(* the source.  Vec<Vec<usize>> values (component lists) are sequences.    *)
(***************************************************************************)
EXTENDS Integers, Sequences, FiniteSets, TLC

(***************************************************************************)
(* Bounds of the model.                                                    *)
(***************************************************************************)
\* engine grids: every shape with at most MaxCells cells
MaxCells == 4
\* largest byte value an initial cell may hold
MaxByte == 2
\* largest iteration count passed to run
MaxIter == 2

(***************************************************************************)
(* CACell                                                                  *)
(***************************************************************************)
\* a conversion writing the largest byte for true
u8_from_max(b) == IF b THEN MaxByte ELSE 0

u8_from(b) == IF b THEN 1 ELSE 0

is_air(cell) == cell # 0

(***************************************************************************)
(* CANeighborhood: a name and the offsets in the order the constructor     *)
(* pushes them.                                                            *)
(***************************************************************************)
von_neumann ==
    [name |-> "von_neumann",
     offsets |-> << <<1, 0, 0>>, <<-1, 0, 0>>, <<0, 1, 0>>,
                    <<0, -1, 0>>, <<0, 0, 1>>, <<0, 0, -1>> >>]

\* the nested loops x, y, z over -radius..=radius, the origin skipped
cube_offsets(radius) ==
    LET s == 2 * radius + 1
        at(k) == << ((k - 1) \div (s * s)) - radius,
                    (((k - 1) \div s) % s) - radius,
                    ((k - 1) % s) - radius >>
        all == [k \in 1..(s * s * s) |-> at(k)]
        keep(o) == o[1] # 0 \/ o[2] # 0 \/ o[3] # 0
    IN SelectSeq(all, keep)

moore == [name |-> "moore", offsets |-> cube_offsets(1)]

extended_moore(radius) ==
    [name |-> "extended_moore", offsets |-> cube_offsets(radius)]

(***************************************************************************)
(* CAContext                                                               *)
(***************************************************************************)
NumCells(g) == g.width * g.height * g.depth

CAContext_new(width, height, depth) ==
    [width |-> width, height |-> height, depth |-> depth,
     cells |-> [i \in 0..(width * height * depth - 1) |-> 0]]

idx(g, x, y, z) == x + g.width * (y + g.height * z)

\* pos with the row length taken as the height
pos_by_height(g, index) ==
    << index % g.height,
       (index % (g.width * g.height)) \div g.height,
       index \div (g.width * g.height) >>

pos(g, index) ==
    << index % g.width,
       (index % (g.width * g.height)) \div g.width,
       index \div (g.width * g.height) >>

\* self.cells[i]: an index past the end of the Vec panics
index(g, i) == IF i \in DOMAIN g.cells THEN g.cells[i] ELSE "panic"

get(g, x, y, z) == index(g, idx(g, x, y, z))

\* the offsets of nb whose target passes both bounds tests, as the target
\* coordinates handed to get, in offset order
targets_of(x, y, z, offsets) ==
    [k \in 1..Len(offsets) |->
        <<x + offsets[k][1], y + offsets[k][2], z + offsets[k][3]>>]

sampled(g, x, y, z, nb) ==
    LET passes(o) ==
            IF x + o[1] < 0 \/ y + o[2] < 0 \/ z + o[3] < 0 THEN FALSE
            ELSE IF \/ x + o[1] >= g.width
                    \/ y + o[2] >= g.height
                    \/ z + o[3] >= g.depth
                 THEN FALSE
                 ELSE TRUE
    IN targets_of(x, y, z, SelectSeq(nb.offsets, passes))

RECURSIVE sum_bytes(_, _, _)
sum_bytes(g, targets, k) ==
    IF k > Len(targets) THEN 0
    ELSE get(g, targets[k][1], targets[k][2], targets[k][3])
         + sum_bytes(g, targets, k + 1)

\* count += self.get(nx, ny, nz).0 as usize
count_air_neighbors(g, x, y, z, nb) == sum_bytes(g, sampled(g, x, y, z, nb), 1)

total_air_cells(g) == Cardinality({i \in DOMAIN g.cells : is_air(g.cells[i])})

total_solid_cells(g) == Cardinality({i \in DOMAIN g.cells : ~is_air(g.cells[i])})

\* the (x, y, z) visited by the loops z, y, x of neighbor_stats, in loop order
coords(g) ==
    [k \in 1..NumCells(g) |->
        << (k - 1) % g.width,
           ((k - 1) \div g.width) % g.height,
           (k - 1) \div (g.width * g.height) >>]

neighbor_counts(g, nb) ==
    LET c == coords(g)
    IN [k \in 1..Len(c) |-> count_air_neighbors(g, c[k][1], c[k][2], c[k][3], nb)]

RECURSIVE sum_seq(_, _)
sum_seq(s, k) == IF k > Len(s) THEN 0 ELSE s[k] + sum_seq(s, k + 1)

seq_min(s) == CHOOSE m \in {s[k] : k \in 1..Len(s)} : \A k \in 1..Len(s) : m <= s[k]

seq_max(s) == CHOOSE m \in {s[k] : k \in 1..Len(s)} : \A k \in 1..Len(s) : m >= s[k]

\* (min, max, sum / count); min starts at usize::MAX and max at 0, and the
\* quotient of two zeros is not a number
neighbor_stats(g, nb) ==
    LET n == neighbor_counts(g, nb)
    IN [min |-> IF Len(n) = 0 THEN "usize::MAX" ELSE seq_min(n),
        max |-> IF Len(n) = 0 THEN 0 ELSE seq_max(n),
        sum |-> sum_seq(n, 1),
        count |-> Len(n)]

(***************************************************************************)
(* CAEngine                                                                *)
(***************************************************************************)
VARIABLES
    config,           \* CAEngine.config: [neighborhood, rule]
    context,          \* CAEngine.context, the current grid
    buffer,           \* CAEngine.buffer, the scratch grid
    pc,               \* "idle", "run" (in the loop of run), "stepping",
                      \* "returned" (run has returned)
    iterations,       \* the argument of run
    iter,             \* the loop variable of run
    log,              \* the log vector handed to run
    done,             \* cell indices whose worker has finished in this step
    alive_neighbors,  \* the local alive_neighbors of each finished worker
    apc,              \* position inside RunResults::from_context
    components,       \* connected_components(), once computed
    percolation,      \* percolates() per axis, once computed
    rough,            \* RoughnessStats, once computed
    tunnel,           \* TunnelStats with its distance field, once computed
    call,             \* the last call made on the grid: [op, args]
    result,           \* what that call did: [panic, value]
    runs,             \* Runner: the (neighborhood, rule, seed) runs, in order
    pending,          \* Runner: the runs par_bridge has not handed out yet
    thread,           \* Runner: per pool thread, [pc, run]
    holders,          \* Runner: the threads holding the guard of results
    results,          \* Runner.results, the Vec behind the mutex
    joined            \* Runner: for_each has returned

engine_vars == <<config, context, buffer, pc, iterations, iter, log, done,
                 alive_neighbors>>

analysis_vars == <<apc, components, percolation, rough, tunnel>>

call_vars == <<call, result>>

vars == <<config, context, buffer, pc, iterations, iter, log, done,
          alive_neighbors, apc, components, percolation, rough, tunnel,
          call, result, runs, pending, thread, holders, results, joined>>

runner_vars == <<runs, pending, thread, holders, results, joined>>

(***************************************************************************)
(* Inputs of the engine.                                                   *)
(***************************************************************************)
Shapes ==
    {s \in (1..MaxCells) \X (1..MaxCells) \X (1..MaxCells) :
        s[1] * s[2] * s[3] <= MaxCells}

\* the byte the constructors write for an alive cell, and the largest byte
AliveBytes == {1, MaxByte}

\* a grid of shape s whose alive cells, those of pattern p, hold the byte v
grid_of(s, p, v) ==
    [width |-> s[1], height |-> s[2], depth |-> s[3],
     cells |-> [i \in 0..(s[1] * s[2] * s[3] - 1) |-> IF i \in p THEN v ELSE 0]]

EngineGrids ==
    UNION {{grid_of(s, p, v) : p \in SUBSET (0..(s[1] * s[2] * s[3] - 1)),
                               v \in AliveBytes} : s \in Shapes}

Neighborhoods == {von_neumann, moore, extended_moore(2)}

Rules ==
    {[name |-> "B_S", birth |-> {}, survival |-> {}],
     [name |-> "B1_S12", birth |-> {1}, survival |-> {1, 2}]}

Configs == {[neighborhood |-> nb, rule |-> r] : nb \in Neighborhoods, r \in Rules}

AnalysisInit ==
    /\ apc = "idle"
    /\ components = << >>
    /\ percolation = << >>
    /\ rough = << >>
    /\ tunnel = << >>

\* no call has been made
CallInit ==
    /\ call = [op |-> "none", args |-> << >>]
    /\ result = [panic |-> FALSE, value |-> << >>]

\* no Runner is running
RunnerIdle ==
    /\ runs = << >>
    /\ pending = << >>
    /\ thread = << >>
    /\ holders = {}
    /\ results = << >>
    /\ joined = FALSE

\* CAEngine::new: the buffer is a clone of the context
Init ==
    /\ config \in Configs
    /\ context \in EngineGrids
    /\ buffer = context
    /\ pc = "idle"
    /\ iterations = 0
    /\ iter = 0
    /\ log = << >>
    /\ done = {}
    /\ alive_neighbors = << >>
    /\ AnalysisInit
    /\ CallInit
    /\ RunnerIdle

\* mean_n={mean_n:.2}: sum / count to two decimals, ties to even
mean_2dp(sum, count) ==
    IF count = 0 THEN "NaN"
    ELSE LET q == (100 * sum) \div count
             r2 == 2 * ((100 * sum) % count)
         IN IF r2 > count \/ (r2 = count /\ q % 2 = 1) THEN q + 1 ELSE q

\* the line numbered one too high
log_line_next(it, g, nb) ==
    LET st == neighbor_stats(g, nb)
    IN [iter |-> it + 1, alive |-> total_air_cells(g), min_n |-> st.min,
        max_n |-> st.max, mean_n |-> mean_2dp(st.sum, st.count)]

log_line(it, g, nb) ==
    LET st == neighbor_stats(g, nb)
    IN [iter |-> it, alive |-> total_air_cells(g), min_n |-> st.min,
        max_n |-> st.max, mean_n |-> mean_2dp(st.sum, st.count)]

\* an in-place update: the workers read the grid they write
WorkerOldInPlace == buffer

\* the grid the workers of a step read: old = &self.context
WorkerOld == context

contains(v, n) == n \in v

\* the survival test negated
cell_step_negated(old, i, nb, rule) ==
    LET p == pos(old, i)
        n == count_air_neighbors(old, p[1], p[2], p[3], nb)
        alive == is_air(index(old, i))
        next == IF alive THEN ~contains(rule.survival, n)
                ELSE contains(rule.birth, n)
    IN [alive_neighbors |-> n, state |-> u8_from(next)]

\* the closure of run_iteration for cell i: the count and the byte written
cell_step(old, i, nb, rule) ==
    LET p == pos(old, i)
        n == count_air_neighbors(old, p[1], p[2], p[3], nb)
        alive == is_air(index(old, i))
        next == IF alive THEN contains(rule.survival, n)
                ELSE contains(rule.birth, n)
    IN [alive_neighbors |-> n, state |-> u8_from(next)]

\* a caller invokes run(k, log) with a fresh log vector
Run(k) ==
    /\ pc = "idle"
    /\ iterations' = k
    /\ iter' = 0
    /\ log' = << >>
    /\ pc' = "run"
    /\ UNCHANGED <<config, context, buffer, done, alive_neighbors>>
    /\ UNCHANGED analysis_vars
    /\ UNCHANGED call_vars
    /\ UNCHANGED runner_vars

\* one pass of the loop of run up to the call of run_iteration
RunLog ==
    /\ pc = "run"
    /\ iter < iterations
    /\ log' = Append(log, log_line(iter, context, config.neighborhood))
    /\ pc' = "stepping"
    /\ done' = {}
    /\ alive_neighbors' = << >>
    /\ UNCHANGED <<config, context, buffer, iterations, iter>>
    /\ UNCHANGED analysis_vars
    /\ UNCHANGED call_vars
    /\ UNCHANGED runner_vars

\* the worker of cell i runs the closure of for_each
Worker(i) ==
    /\ pc = "stepping"
    /\ i \notin done
    /\ \E r \in {cell_step(WorkerOld, i, config.neighborhood, config.rule)} :
          /\ buffer' = [buffer EXCEPT !.cells[i] = r.state]
          /\ alive_neighbors' = alive_neighbors @@ (i :> r.alive_neighbors)
    /\ done' = done \cup {i}
    /\ UNCHANGED <<config, context, pc, iterations, iter, log>>
    /\ UNCHANGED analysis_vars
    /\ UNCHANGED call_vars
    /\ UNCHANGED runner_vars

\* the scratch grid copied into the current grid instead of exchanged
SwapCopy ==
    /\ pc = "stepping"
    /\ done = DOMAIN buffer.cells
    /\ context' = buffer
    /\ buffer' = buffer
    /\ pc' = "run"
    /\ iter' = iter + 1
    /\ UNCHANGED <<config, iterations, log, done, alive_neighbors>>
    /\ UNCHANGED analysis_vars
    /\ UNCHANGED call_vars
    /\ UNCHANGED runner_vars

\* for_each has returned: std::mem::swap, run_iteration returns into the
\* loop of run
Swap ==
    /\ pc = "stepping"
    /\ done = DOMAIN buffer.cells
    /\ context' = buffer
    /\ buffer' = context
    /\ pc' = "run"
    /\ iter' = iter + 1
    /\ UNCHANGED <<config, iterations, log, done, alive_neighbors>>
    /\ UNCHANGED analysis_vars
    /\ UNCHANGED call_vars
    /\ UNCHANGED runner_vars

\* the loop of run is over: the last log line, and run returns
RunReturn ==
    /\ pc = "run"
    /\ iter >= iterations
    /\ log' = Append(log, log_line(iterations, context, config.neighborhood))
    /\ pc' = "returned"
    /\ UNCHANGED <<config, context, buffer, iterations, iter, done,
                   alive_neighbors>>
    /\ UNCHANGED analysis_vars
    /\ UNCHANGED call_vars
    /\ UNCHANGED runner_vars

Next ==
    \/ \E k \in 0..MaxIter : Run(k)
    \/ RunLog
    \/ \E i \in DOMAIN buffer.cells : Worker(i)
    \/ Swap
    \/ RunReturn

Spec == Init /\ [][Next]_vars

TypeOK ==
    /\ pc \in {"idle", "run", "stepping", "returned"}
    /\ DOMAIN context.cells = 0..(NumCells(context) - 1)
    /\ DOMAIN buffer.cells = 0..(NumCells(buffer) - 1)

(***************************************************************************)
(* Connectivity: CAContext::connected_components and CAContext::percolates *)
(***************************************************************************)
\* the six directions and one diagonal
dirs_with_diagonal ==
    << <<1, 0, 0>>, <<-1, 0, 0>>, <<0, 1, 0>>,
       <<0, -1, 0>>, <<0, 0, 1>>, <<0, 0, -1>>, <<1, 1, 0>> >>

dirs ==
    << <<1, 0, 0>>, <<-1, 0, 0>>, <<0, 1, 0>>,
       <<0, -1, 0>>, <<0, 0, 1>>, <<0, 0, -1>> >>

\* the neighbour of cell i in direction d, as an index, or -1 when one of the
\* two bounds tests skips it
neighbor_index(g, i, d) ==
    LET p == pos(g, i)
    IN IF p[1] + d[1] < 0 \/ p[2] + d[2] < 0 \/ p[3] + d[3] < 0 THEN -1
       ELSE IF \/ p[1] + d[1] >= g.width
               \/ p[2] + d[2] >= g.height
               \/ p[3] + d[3] >= g.depth
            THEN -1
            ELSE idx(g, p[1] + d[1], p[2] + d[2], p[3] + d[3])

\* the loop body without the is_air test
visit_any_cell(g, st, nidx) ==
    IF nidx = -1 THEN st
    ELSE IF nidx \notin st.visited
         THEN [st EXCEPT !.visited = st.visited \cup {nidx},
                         !.queue = Append(st.queue, nidx)]
         ELSE st

\* the body of the loop over dirs: st = [visited, queue, component]
visit(g, st, nidx) ==
    IF nidx = -1 THEN st
    ELSE IF nidx \notin st.visited /\ is_air(index(g, nidx))
         THEN [st EXCEPT !.visited = st.visited \cup {nidx},
                         !.queue = Append(st.queue, nidx)]
         ELSE st

RECURSIVE visit_dirs(_, _, _, _)
visit_dirs(g, i, st, k) ==
    IF k > Len(dirs) THEN st
    ELSE visit_dirs(g, i, visit(g, st, neighbor_index(g, i, dirs[k])), k + 1)

\* one turn of the while loop: pop the front, push it on the component, look
\* at its six neighbours
flood_step(g, st) ==
    visit_dirs(g, Head(st.queue),
               [st EXCEPT !.queue = Tail(st.queue),
                          !.component = Append(st.component, Head(st.queue))],
               1)

\* at most n turns of the while loop, stopping when the queue is empty
RECURSIVE flood_turns(_, _, _)
flood_turns(g, st, n) ==
    IF st.queue = << >> THEN st
    ELSE IF n <= 1 THEN flood_step(g, st)
         ELSE CHOOSE r \in {flood_turns(g, half, n - (n \div 2)) :
                             half \in {flood_turns(g, st, n \div 2)}} : TRUE

\* while let Some(idx) = queue.pop_front()
RECURSIVE flood(_, _)
flood(g, st) ==
    IF st.queue = << >> THEN st
    ELSE CHOOSE r \in {flood(g, after) :
                        after \in {flood_turns(g, st, NumCells(g))}} : TRUE

\* the body of the loop over i: st = [visited, components]
scan_step(g, st, i) ==
    IF i \in st.visited \/ ~is_air(index(g, i)) THEN st
    ELSE LET r == CHOOSE r \in {flood(g, [visited |-> st.visited \cup {i},
                                          queue |-> <<i>>,
                                          component |-> << >>])} : TRUE
         IN [visited |-> r.visited,
             components |-> Append(st.components, r.component)]

\* the loop over i taken from the last index down
RECURSIVE scan_downward(_, _, _, _)
scan_downward(g, st, lo, hi) ==
    IF lo > hi THEN st
    ELSE IF lo = hi THEN scan_step(g, st, lo)
         ELSE CHOOSE r \in {scan_downward(g, half, lo, (lo + hi) \div 2) :
                            half \in {scan_downward(g, st, (lo + hi) \div 2 + 1,
                                                    hi)}} : TRUE

\* for i in lo..=hi
RECURSIVE scan(_, _, _, _)
scan(g, st, lo, hi) ==
    IF lo > hi THEN st
    ELSE IF lo = hi THEN scan_step(g, st, lo)
         ELSE CHOOSE r \in {scan(g, half, (lo + hi) \div 2 + 1, hi) :
                             half \in {scan(g, st, lo, (lo + hi) \div 2)}} : TRUE

connected_components(g) ==
    scan(g, [visited |-> {}, components |-> << >>], 0, NumCells(g) - 1).components

Axes == <<"X", "Y", "Z">>

axis_of(g, i, axis) ==
    IF axis = "X" THEN pos(g, i)[1]
    ELSE IF axis = "Y" THEN pos(g, i)[2] ELSE pos(g, i)[3]

\* the limit taken as the size
limit_of_size(g, axis) ==
    IF axis = "X" THEN g.width
    ELSE IF axis = "Y" THEN g.height ELSE g.depth

limit_of(g, axis) ==
    IF axis = "X" THEN g.width - 1
    ELSE IF axis = "Y" THEN g.height - 1 ELSE g.depth - 1

\* min starts at usize::MAX, so an empty component never has min = 0; max
\* starts at 0
comp_percolates(g, comp, axis) ==
    LET vs == {axis_of(g, comp[k], axis) : k \in 1..Len(comp)}
        min == CHOOSE v \in vs : \A u \in vs : v <= u
        max == IF vs = {} THEN 0 ELSE CHOOSE v \in vs : \A u \in vs : u <= v
    IN vs # {} /\ min = 0 /\ max = limit_of(g, axis)

RECURSIVE percolates_from(_, _, _, _)
percolates_from(g, comps, axis, k) ==
    IF k > Len(comps) THEN FALSE
    ELSE IF comp_percolates(g, comps[k], axis) THEN TRUE
         ELSE percolates_from(g, comps, axis, k + 1)

percolates(g, comps, axis) == percolates_from(g, comps, axis, 1)

(***************************************************************************)
(* Statistics are kept exact: a mean is the pair <<sum, divisor>> and a    *)
(* standard deviation is given by its square, the variance, as a pair      *)
(* <<numerator, denominator>>.  values.len().max(1) is the divisor.        *)
(***************************************************************************)
max1(n) == IF n > 1 THEN n ELSE 1

\* values.iter().sum() over the positions lo..hi
RECURSIVE sum_values(_, _, _)
sum_values(nums, lo, hi) ==
    IF lo > hi THEN 0
    ELSE IF lo = hi THEN nums[lo]
         ELSE sum_values(nums, lo, (lo + hi) \div 2)
              + sum_values(nums, (lo + hi) \div 2 + 1, hi)

\* the sum of (v - mean)^2 over the positions lo..hi, as a multiple of
\* 1 / m^2, where mean = total / m
RECURSIVE sum_sq_dev(_, _, _, _, _)
sum_sq_dev(nums, m, total, lo, hi) ==
    IF lo > hi THEN 0
    ELSE IF lo = hi THEN (nums[lo] * m - total) * (nums[lo] * m - total)
         ELSE sum_sq_dev(nums, m, total, lo, (lo + hi) \div 2)
              + sum_sq_dev(nums, m, total, (lo + hi) \div 2 + 1, hi)

\* mean and variance of the values nums[k] / unit
mean_var(nums, unit) ==
    LET m == max1(Len(nums))
        total == sum_values(nums, 1, Len(nums))
    IN [mean |-> <<total, unit * m>>,
        var |-> <<sum_sq_dev(nums, m, total, 1, Len(nums)),
                  unit * unit * m * m * m>>]

(***************************************************************************)
(* RoughnessStats::from_context                                            *)
(***************************************************************************)
\* the 26 directions, x outermost, as the flat_map chain builds them
rough_dirs == cube_offsets(1)

\* what the loop body does with direction d at cell t: count it as air, or
\* set the solid flag
probe(g, t, d) ==
    IF t[1] + d[1] < 0 \/ t[2] + d[2] < 0 \/ t[3] + d[3] < 0 THEN "solid"
    ELSE IF \/ t[1] + d[1] >= g.width
            \/ t[2] + d[2] >= g.height
            \/ t[3] + d[3] >= g.depth
         THEN "solid"
         ELSE IF is_air(get(g, t[1] + d[1], t[2] + d[2], t[3] + d[3]))
              THEN "air"
              ELSE "solid"

air_of(g, t) ==
    Cardinality({k \in 1..Len(rough_dirs) : probe(g, t, rough_dirs[k]) = "air"})

solid_flag(g, t) ==
    \E k \in 1..Len(rough_dirs) : probe(g, t, rough_dirs[k]) = "solid"

\* the cells whose value is pushed, in loop order
surface_voxels(g) ==
    LET pushed(t) == ~is_air(get(g, t[1], t[2], t[3])) /\ solid_flag(g, t)
    IN SelectSeq(coords(g), pushed)

\* values[k] = 1 - air / 26 is kept as the numerator 26 - air
RoughnessStats_from_context(g) ==
    LET cells == surface_voxels(g)
        max_n == Len(rough_dirs)
        nums == [k \in 1..Len(cells) |-> max_n - air_of(g, cells[k])]
        mv == mean_var(nums, max_n)
    IN [count |-> Len(nums), cells |-> cells, values |-> nums, max_n |-> max_n,
        mean |-> mv.mean, var |-> mv.var]

(***************************************************************************)
(* TunnelStats::from_context                                               *)
(***************************************************************************)
I32_MAX == 2147483647

tunnel_dirs ==
    << <<1, 0, 0>>, <<-1, 0, 0>>, <<0, 1, 0>>,
       <<0, -1, 0>>, <<0, 0, 1>>, <<0, 0, -1>> >>

\* max_by_key(|c| c.len()): the last of the longest components
largest_index(comps) ==
    CHOOSE k \in 1..Len(comps) :
        /\ \A j \in 1..Len(comps) : Len(comps[j]) <= Len(comps[k])
        /\ \A j \in (k + 1)..Len(comps) : Len(comps[j]) < Len(comps[k])

\* the surface test ignoring solid neighbours
is_seed_outside_only(g, i) ==
    \E k \in 1..Len(tunnel_dirs) : neighbor_index(g, i, tunnel_dirs[k]) = -1

\* the loop over dirs breaks at the first neighbour that is out of bounds or
\* solid
is_seed(g, i) ==
    \E k \in 1..Len(tunnel_dirs) :
        \/ neighbor_index(g, i, tunnel_dirs[k]) = -1
        \/ ~is_air(index(g, neighbor_index(g, i, tunnel_dirs[k])))

\* the loop body writing dist[idx] + 2
relax_two(g, st, i, nidx) ==
    IF nidx = -1 THEN st
    ELSE IF is_air(index(g, nidx)) /\ st.dist[nidx] > st.dist[i] + 1
         THEN [dist |-> [st.dist EXCEPT ![nidx] = st.dist[i] + 2],
               queue |-> Append(st.queue, nidx)]
         ELSE st

\* the body of the loop over dirs of the breadth-first pass: st = [dist, queue]
relax(g, st, i, nidx) ==
    IF nidx = -1 THEN st
    ELSE IF is_air(index(g, nidx)) /\ st.dist[nidx] > st.dist[i] + 1
         THEN [dist |-> [st.dist EXCEPT ![nidx] = st.dist[i] + 1],
               queue |-> Append(st.queue, nidx)]
         ELSE st

RECURSIVE relax_dirs(_, _, _, _)
relax_dirs(g, i, st, k) ==
    IF k > Len(tunnel_dirs) THEN st
    ELSE relax_dirs(g, i, relax(g, st, i, neighbor_index(g, i, tunnel_dirs[k])),
                    k + 1)

\* one turn of the while loop
bfs_step(g, st) ==
    relax_dirs(g, Head(st.queue), [st EXCEPT !.queue = Tail(st.queue)], 1)

\* at most n turns of the while loop, stopping when the queue is empty
RECURSIVE bfs_turns(_, _, _)
bfs_turns(g, st, n) ==
    IF st.queue = << >> THEN st
    ELSE IF n <= 1 THEN bfs_step(g, st)
         ELSE CHOOSE r \in {bfs_turns(g, half, n - (n \div 2)) :
                             half \in {bfs_turns(g, st, n \div 2)}} : TRUE

\* while let Some(idx) = queue.pop_front()
RECURSIVE bfs(_, _)
bfs(g, st) ==
    IF st.queue = << >> THEN st
    ELSE CHOOSE r \in {bfs(g, after) :
                        after \in {bfs_turns(g, st, NumCells(g))}} : TRUE

\* dist and queue when the loop over the members of largest has finished
seed_state(g, largest) ==
    LET seeded(i) == is_seed(g, i)
        queue == SelectSeq(largest, seeded)
        seeds == {queue[k] : k \in 1..Len(queue)}
        dist == [i \in DOMAIN g.cells |-> IF i \in seeds THEN 1 ELSE I32_MAX]
    IN [dist |-> dist, queue |-> queue]

distance_field(g, largest) == bfs(g, seed_state(g, largest)).dist

TunnelStats_from_context(g, comps) ==
    IF Len(comps) = 0
    THEN [largest |-> << >>, dist |-> << >>, values |-> << >>,
          mean |-> <<0, 1>>, var |-> <<0, 1>>]
    ELSE LET largest == comps[largest_index(comps)]
             dist == distance_field(g, largest)
             positive(d) == d > 0
             values == SelectSeq([k \in 1..Len(largest) |-> dist[largest[k]]],
                                 positive)
             mv == mean_var(values, 1)
         IN [largest |-> largest, dist |-> dist, values |-> values,
             mean |-> mv.mean, var |-> mv.var]

(***************************************************************************)
(* RunResults::from_context: the analysis of a finished grid, one action   *)
(* per operation it calls, in the order it calls them.                     *)
(***************************************************************************)
\* the side of the layered analysis grids
Side == 3
\* the side of the largest fully alive cube
MaxCube == 5

\* the alive cells of one z-layer of a layered grid
layer_has(name, x, y) ==
    IF name = "full" THEN TRUE
    ELSE IF name = "center" THEN x = 1 /\ y = 1
    ELSE IF name = "ring" THEN ~(x = 1 /\ y = 1)
    ELSE IF name = "row" THEN y = 1
    ELSE IF name = "diagonal" THEN x = y
    ELSE FALSE

LayerNames == {"empty", "full", "center", "ring", "row", "diagonal"}

\* the grid of side Side with the bottom layer layers[1], the top layer
\* layers[3] and the layers between them layers[2]
layered_grid(layers) ==
    [width |-> Side, height |-> Side, depth |-> Side,
     cells |-> [i \in 0..(Side * Side * Side - 1) |->
        LET z == i \div (Side * Side)
            name == IF z = 0 THEN layers[1]
                    ELSE IF z = Side - 1 THEN layers[3] ELSE layers[2]
        IN IF layer_has(name, i % Side, (i \div Side) % Side) THEN 1 ELSE 0]]

LayeredGrids == {layered_grid(l) : l \in [1..3 -> LayerNames]}

Cubes ==
    {[width |-> n, height |-> n, depth |-> n,
      cells |-> [i \in 0..(n * n * n - 1) |-> 1]] : n \in 1..MaxCube}

AnalysisGrids == EngineGrids \cup LayeredGrids \cup Cubes

InitAnalysis ==
    /\ config = CHOOSE c \in Configs :
                    c.neighborhood = moore /\ c.rule.birth = {}
    /\ context \in AnalysisGrids
    /\ buffer = context
    /\ pc = "idle"
    /\ iterations = 0
    /\ iter = 0
    /\ log = << >>
    /\ done = {}
    /\ alive_neighbors = << >>
    /\ AnalysisInit
    /\ CallInit
    /\ RunnerIdle

ConnectedComponents ==
    /\ apc = "idle"
    /\ components' = connected_components(context)
    /\ apc' = "components"
    /\ UNCHANGED <<percolation, rough, tunnel>>
    /\ UNCHANGED engine_vars
    /\ UNCHANGED call_vars
    /\ UNCHANGED runner_vars

\* percolates is called for X, then Y, then Z
Percolates(axis) ==
    /\ apc = "components"
    /\ Len(percolation) < Len(Axes)
    /\ axis = Axes[Len(percolation) + 1]
    /\ percolation' = Append(percolation, percolates(context, components, axis))
    /\ apc' = IF Len(percolation) + 1 = Len(Axes) THEN "percolation" ELSE apc
    /\ UNCHANGED <<components, rough, tunnel>>
    /\ UNCHANGED engine_vars
    /\ UNCHANGED call_vars
    /\ UNCHANGED runner_vars

Roughness ==
    /\ apc = "percolation"
    /\ rough' = RoughnessStats_from_context(context)
    /\ apc' = "roughness"
    /\ UNCHANGED <<components, percolation, tunnel>>
    /\ UNCHANGED engine_vars
    /\ UNCHANGED call_vars
    /\ UNCHANGED runner_vars

Tunnel ==
    /\ apc = "roughness"
    /\ tunnel' = TunnelStats_from_context(context, components)
    /\ apc' = "done"
    /\ UNCHANGED <<components, percolation, rough>>
    /\ UNCHANGED engine_vars
    /\ UNCHANGED call_vars
    /\ UNCHANGED runner_vars

NextAnalysis ==
    \/ ConnectedComponents
    \/ \E axis \in {"X", "Y", "Z"} : Percolates(axis)
    \/ Roughness
    \/ Tunnel

SpecAnalysis == InitAnalysis /\ [][NextAnalysis]_vars

(***************************************************************************)
(* Calls on a grid: the constructors and accessors of CAContext, and the   *)
(* aggregates computed from a grid.  Every call records what it was given  *)
(* and what it did.                                                        *)
(***************************************************************************)
\* largest dimension handed to a constructor
MaxDim == 3

\* CAContext::random: one random_bool per cell, true for the cells of draws
CAContext_random(width, height, depth, draws) ==
    [width |-> width, height |-> height, depth |-> depth,
     cells |-> [i \in 0..(width * height * depth - 1) |-> u8_from(i \in draws)]]

\* the bounds check of self.cells[i]
in_vec(g, i) == i \in DOMAIN g.cells

\* self.cells[i] = value
set(g, x, y, z, value) == [g EXCEPT !.cells[idx(g, x, y, z)] = value]

\* the divisors of pos: index / (width * height) and index % width
pos_divides_by_zero(g) == g.width * g.height = 0 \/ g.width = 0

\* a as f64 / b as f64
f64_div(a, b) ==
    IF b = 0 THEN [nan |-> a = 0, inf |-> a # 0, num |-> 0, den |-> 1]
    ELSE [nan |-> FALSE, inf |-> FALSE, num |-> a, den |-> b]

\* components.iter().map(Vec::len).max().unwrap_or(0)
v_max_of(comps) ==
    IF Len(comps) = 0 THEN 0
    ELSE CHOOSE m \in {Len(comps[k]) : k \in 1..Len(comps)} :
             \A k \in 1..Len(comps) : Len(comps[k]) <= m

\* the fields RunResults::from_context computes from the grid
RunResults_from_context(g) ==
    LET comps == connected_components(g)
        v_total == total_air_cells(g)
        v_max == v_max_of(comps)
        r == RoughnessStats_from_context(g)
        t == TunnelStats_from_context(g, comps)
    IN [v_total |-> v_total,
        porosity |-> f64_div(v_total, g.width * g.height * g.depth),
        n_comp |-> Len(comps),
        v_max |-> v_max,
        lcr |-> IF v_total > 0 THEN f64_div(v_max, v_total) ELSE f64_div(0, 1),
        surface_voxels |-> r.count,
        roughness_mean |-> f64_div(r.mean[1], r.mean[2]),
        roughness_var |-> f64_div(r.var[1], r.var[2]),
        tunnel_values |-> Len(t.values),
        tunnel_radius_mean |-> f64_div(t.mean[1], t.mean[2]),
        tunnel_radius_var |-> f64_div(t.var[1], t.var[2])]

\* the dimensions handed to random
SmallShapes ==
    {s \in (0..MaxDim) \X (0..MaxDim) \X (0..MaxDim) :
        s[1] * s[2] * s[3] <= MaxCells}

\* before the constructor call; context holds a placeholder until then
InitContext ==
    /\ config = CHOOSE c \in Configs :
                    c.neighborhood = moore /\ c.rule.birth = {}
    /\ context = CAContext_new(1, 1, 1)
    /\ buffer = context
    /\ pc = "idle"
    /\ iterations = 0
    /\ iter = 0
    /\ log = << >>
    /\ done = {}
    /\ alive_neighbors = << >>
    /\ AnalysisInit
    /\ CallInit
    /\ RunnerIdle

\* a constructor has returned the grid and no query has been made on it: a
\* query changes nothing, so the calls that could follow one are the calls
\* that could have been made in its place
constructed == call.op \in {"new", "random", "set"}

\* what a call leaves alone besides the grid
CallFrame ==
    /\ UNCHANGED <<config, buffer, pc, iterations, iter, log, done,
                   alive_neighbors>>
    /\ UNCHANGED analysis_vars
    /\ UNCHANGED runner_vars

New(width, height, depth) ==
    /\ call.op = "none"
    /\ context' = CAContext_new(width, height, depth)
    /\ call' = [op |-> "new", args |-> <<width, height, depth>>]
    /\ result' = [panic |-> FALSE, value |-> << >>]
    /\ CallFrame

Random(width, height, depth, draws) ==
    /\ call.op = "none"
    /\ width * height * depth <= MaxCells
    /\ context' = CAContext_random(width, height, depth, draws)
    /\ call' = [op |-> "random", args |-> <<width, height, depth>>]
    /\ result' = [panic |-> FALSE, value |-> << >>]
    /\ CallFrame

Idx(x, y, z) ==
    /\ constructed
    /\ call' = [op |-> "idx", args |-> <<x, y, z>>]
    /\ result' = [panic |-> FALSE, value |-> idx(context, x, y, z)]
    /\ UNCHANGED context
    /\ CallFrame

Pos(i) ==
    /\ constructed
    /\ call' = [op |-> "pos", args |-> <<i>>]
    /\ result' = IF pos_divides_by_zero(context)
                 THEN [panic |-> TRUE, value |-> << >>]
                 ELSE [panic |-> FALSE, value |-> pos(context, i)]
    /\ UNCHANGED context
    /\ CallFrame

Get(x, y, z) ==
    /\ constructed
    /\ call' = [op |-> "get", args |-> <<x, y, z>>]
    /\ result' = IF in_vec(context, idx(context, x, y, z))
                 THEN [panic |-> FALSE, value |-> get(context, x, y, z)]
                 ELSE [panic |-> TRUE, value |-> << >>]
    /\ UNCHANGED context
    /\ CallFrame

Set(x, y, z, value) ==
    /\ constructed
    /\ NumCells(context) <= MaxCells
    /\ call' = [op |-> "set", args |-> <<x, y, z, value>>]
    /\ IF in_vec(context, idx(context, x, y, z))
       THEN /\ context' = set(context, x, y, z, value)
            /\ result' = [panic |-> FALSE, value |-> << >>]
       ELSE /\ context' = context
            /\ result' = [panic |-> TRUE, value |-> << >>]
    /\ CallFrame

NeighborStats(nb) ==
    /\ constructed
    /\ call' = [op |-> "neighbor_stats", args |-> <<nb.name>>]
    /\ \E st \in {neighbor_stats(context, nb)} :
          result' = [panic |-> FALSE,
                     value |-> [min |-> st.min, max |-> st.max,
                                mean |-> f64_div(st.sum, st.count)]]
    /\ UNCHANGED context
    /\ CallFrame

FromContext ==
    /\ constructed
    /\ call' = [op |-> "from_context", args |-> << >>]
    /\ result' = [panic |-> FALSE, value |-> RunResults_from_context(context)]
    /\ UNCHANGED context
    /\ CallFrame

NextContext ==
    \/ \E w, h, d \in 0..MaxDim : New(w, h, d)
    \/ \E s \in SmallShapes :
          \E draws \in SUBSET (0..(s[1] * s[2] * s[3] - 1)) :
              Random(s[1], s[2], s[3], draws)
    \/ \E x \in 0..context.width, y \in 0..context.height,
          z \in 0..context.depth : Idx(x, y, z)
    \/ \E i \in 0..NumCells(context) : Pos(i)
    \/ \E x \in 0..context.width, y \in 0..context.height,
          z \in 0..context.depth : Get(x, y, z)
    \/ \E x \in 0..context.width, y \in 0..context.height,
          z \in 0..context.depth :
          \E value \in {0, 1} : Set(x, y, z, value)
    \/ \E nb \in Neighborhoods : NeighborStats(nb)
    \/ FromContext

SpecContext == InitContext /\ [][NextContext]_vars

(***************************************************************************)
(* Runner::run: the runs are handed by par_bridge to the threads of the    *)
(* pool, one at a time each; a thread executes run_single on its run and   *)
(* asks for the next.                                                      *)
(***************************************************************************)
\* threads of the pool
Threads == 2
\* largest number of seeds
MaxSeeds == 2

\* generate_seeds(n, base), with base = 1
generate_seeds(n) == [i \in 1..n |-> i]

\* the flat_map chain: neighborhoods outermost, seeds innermost
run_list(nbs, rules, seeds) ==
    [k \in 1..(Len(nbs) * Len(rules) * Len(seeds)) |->
        << nbs[((k - 1) \div (Len(rules) * Len(seeds))) + 1],
           rules[(((k - 1) \div Len(seeds)) % Len(rules)) + 1],
           seeds[((k - 1) % Len(seeds)) + 1] >>]

RunnerNeighborhoods == {<<"von_neumann">>, <<"von_neumann", "moore">>}

RunnerRulesets == {<<"B567_S456">>}

\* the guard can be taken
lock_always(h) == TRUE

\* Mutex::lock returns when no thread holds the guard
lock_free(h) == h = {}

\* Runner::new and the start of run: nothing handed out, nothing pushed
InitRunner ==
    /\ \E nbs \in RunnerNeighborhoods, rules \in RunnerRulesets,
          n \in 0..MaxSeeds :
          runs = run_list(nbs, rules, generate_seeds(n))
    /\ pending = runs
    /\ thread = [t \in 1..Threads |-> [pc |-> "idle", run |-> << >>]]
    /\ holders = {}
    /\ results = << >>
    /\ joined = FALSE
    /\ config = CHOOSE c \in Configs :
                    c.neighborhood = moore /\ c.rule.birth = {}
    /\ context = CAContext_new(1, 1, 1)
    /\ buffer = context
    /\ pc = "idle"
    /\ iterations = 0
    /\ iter = 0
    /\ log = << >>
    /\ done = {}
    /\ alive_neighbors = << >>
    /\ AnalysisInit
    /\ CallInit

\* what a step of the Runner leaves alone
RunnerFrame ==
    /\ UNCHANGED engine_vars
    /\ UNCHANGED analysis_vars
    /\ UNCHANGED call_vars
    /\ UNCHANGED runs

\* par_bridge hands the next run to thread t, which enters run_single
Take(t) ==
    /\ thread[t].pc = "idle"
    /\ pending # << >>
    /\ thread' = [thread EXCEPT ![t] = [pc |-> "simulate", run |-> Head(pending)]]
    /\ pending' = Tail(pending)
    /\ UNCHANGED <<holders, results, joined>>
    /\ RunnerFrame

\* CAContext::random, CAEngine::new, engine.run and info.save, all on values
\* owned by the thread
Simulate(t) ==
    /\ thread[t].pc = "simulate"
    /\ thread' = [thread EXCEPT ![t].pc = "analyse"]
    /\ UNCHANGED <<pending, holders, results, joined>>
    /\ RunnerFrame

\* RunResults::from_context on the thread's own engine
Analyse(t) ==
    /\ thread[t].pc = "analyse"
    /\ thread' = [thread EXCEPT ![t].pc = "lock"]
    /\ UNCHANGED <<pending, holders, results, joined>>
    /\ RunnerFrame

\* self.results.lock().unwrap()
Lock(t) ==
    /\ thread[t].pc = "lock"
    /\ lock_free(holders)
    /\ holders' = holders \cup {t}
    /\ thread' = [thread EXCEPT ![t].pc = "push"]
    /\ UNCHANGED <<pending, results, joined>>
    /\ RunnerFrame

\* res_lock.push(results)
Push(t) ==
    /\ thread[t].pc = "push"
    /\ results' = Append(results, thread[t].run)
    /\ thread' = [thread EXCEPT ![t].pc = "unlock"]
    /\ UNCHANGED <<pending, holders, joined>>
    /\ RunnerFrame

\* the guard is dropped at the end of run_single; pb.inc(1)
Unlock(t) ==
    /\ thread[t].pc = "unlock"
    /\ holders' = holders \ {t}
    /\ thread' = [thread EXCEPT ![t] = [pc |-> "idle", run |-> << >>]]
    /\ UNCHANGED <<pending, results, joined>>
    /\ RunnerFrame

\* for_each returns: no run is left and every thread is done
Join ==
    /\ ~joined
    /\ pending = << >>
    /\ \A t \in DOMAIN thread : thread[t].pc = "idle"
    /\ joined' = TRUE
    /\ UNCHANGED <<pending, thread, holders, results>>
    /\ RunnerFrame

NextRunner ==
    \/ \E t \in DOMAIN thread : Take(t)
    \/ \E t \in DOMAIN thread : Simulate(t)
    \/ \E t \in DOMAIN thread : Analyse(t)
    \/ \E t \in DOMAIN thread : Lock(t)
    \/ \E t \in DOMAIN thread : Push(t)
    \/ \E t \in DOMAIN thread : Unlock(t)
    \/ Join

SpecRunner == InitRunner /\ [][NextRunner]_vars

(***************************************************************************)
(* Reference definitions used by the properties.                           *)
(***************************************************************************)
in_bounds(g, t) ==
    /\ 0 <= t[1] /\ t[1] < g.width
    /\ 0 <= t[2] /\ t[2] < g.height
    /\ 0 <= t[3] /\ t[3] < g.depth

\* the cell at coordinate t, by its definition and not through idx
cell_at(g, t) ==
    LET k == CHOOSE k \in 1..NumCells(g) : coords(g)[k] = t
    IN g.cells[k - 1]

\* the number of offsets of nb that land in bounds on an alive cell
alive_in_bounds(g, t, nb) ==
    Cardinality({k \in 1..Len(nb.offsets) :
        LET u == <<t[1] + nb.offsets[k][1], t[2] + nb.offsets[k][2],
                   t[3] + nb.offsets[k][3]>>
        IN in_bounds(g, u) /\ is_air(cell_at(g, u))})

AllSolid(g) == \A i \in DOMAIN g.cells : g.cells[i] = 0

EmptyRule == config.rule.birth = {} /\ config.rule.survival = {}

\* the cells after one synchronous transition with alive-neighbour counts
reference_alive(g, i, nb, rule) ==
    LET n == alive_in_bounds(g, coords(g)[i + 1], nb)
    IN \/ is_air(g.cells[i]) /\ n \in rule.survival
       \/ ~is_air(g.cells[i]) /\ n \in rule.birth

\* the closure applied to the cells 0, 1, 2, ... in turn, each writing its
\* own cell of the scratch grid
RECURSIVE sequential_from(_, _, _, _, _)
sequential_from(old, new, i, nb, rule) ==
    IF i >= NumCells(old) THEN new
    ELSE sequential_from(old,
            [new EXCEPT !.cells[i] = cell_step(old, i, nb, rule).state],
            i + 1, nb, rule)

(***************************************************************************)
(* C1.  One engine step is the synchronous transition: the new cell i is   *)
(* alive iff the old cell is alive and n is a survival count, or the old   *)
(* cell is solid and n is a birth count, n being the number of alive       *)
(* neighbours of cell i in the grid before the step.                       *)
(***************************************************************************)
C1_SynchronousTransition ==
    [][(pc = "stepping" /\ pc' = "run") =>
        \A i \in DOMAIN context.cells :
            is_air(context'.cells[i]) <=>
                reference_alive(context, i, config.neighborhood, config.rule)]_vars

(***************************************************************************)
(* C2.  Inside a step every worker finishes one cell that no other worker  *)
(* has finished, writes only that cell of the scratch grid, writes the     *)
(* value the closure yields on the current grid whatever the scratch grid  *)
(* holds, and leaves the current grid alone; the grids are exchanged only  *)
(* when every worker has finished, and the exchanged grid is the one the   *)
(* closure yields when applied to the cells in index order.                *)
(***************************************************************************)
C2_WorkerStep ==
    \E i \in DOMAIN buffer.cells \ done :
        /\ done' = done \cup {i}
        /\ context' = context
        /\ buffer' = [buffer EXCEPT !.cells[i] =
              cell_step(context, i, config.neighborhood, config.rule).state]

C2_Exchange ==
    /\ done = DOMAIN buffer.cells
    /\ context' = sequential_from(context, buffer, 0, config.neighborhood,
                                  config.rule)

C2_AnyInterleaving ==
    [][pc = "stepping" =>
        IF pc' = "stepping" THEN C2_WorkerStep ELSE C2_Exchange]_vars

\* workers have finished out of index order and changed the scratch grid
C2_Witness ==
    /\ pc = "stepping"
    /\ NumCells(context) >= 3
    /\ Cardinality(done) >= 2
    /\ 0 \notin done
    /\ \E i \in done : buffer.cells[i] # context.cells[i]

(***************************************************************************)
(* C3.  For every cell whose worker has run, the count it obtained from    *)
(* count_air_neighbors is the number of neighbourhood offsets that land in *)
(* bounds on an alive cell, and every coordinate handed to get is in       *)
(* bounds.                                                                 *)
(***************************************************************************)
C3_CountsAliveInBounds ==
    pc = "stepping" =>
        \A i \in DOMAIN alive_neighbors :
            LET t == pos(context, i)
            IN /\ alive_neighbors[i] =
                      alive_in_bounds(context, t, config.neighborhood)
               /\ \A k \in DOMAIN sampled(context, t[1], t[2], t[3],
                                          config.neighborhood) :
                      in_bounds(context, sampled(context, t[1], t[2], t[3],
                                                 config.neighborhood)[k])

(***************************************************************************)
(* Reference definitions for the analysis properties.                      *)
(***************************************************************************)
AliveCells(g) == {i \in DOMAIN g.cells : g.cells[i] # 0}

Members(comp) == {comp[k] : k \in 1..Len(comp)}

\* two cells that differ by one in exactly one coordinate
adjacent6(g, i, j) ==
    LET p == pos(g, i)
        q == pos(g, j)
        gap(a) == IF p[a] > q[a] THEN p[a] - q[a] ELSE q[a] - p[a]
    IN gap(1) + gap(2) + gap(3) = 1

\* the coordinates around t that differ by at most one in every coordinate
Moore26(t) ==
    {<<t[1] + dx, t[2] + dy, t[3] + dz>> : dx \in -1..1, dy \in -1..1,
                                           dz \in -1..1} \ {t}

\* the six coordinates around t that differ by one in one coordinate
Faces6(t) ==
    {<<t[1] + 1, t[2], t[3]>>, <<t[1] - 1, t[2], t[3]>>,
     <<t[1], t[2] + 1, t[3]>>, <<t[1], t[2] - 1, t[3]>>,
     <<t[1], t[2], t[3] + 1>>, <<t[1], t[2], t[3] - 1>>}

\* the row-major index of coordinate t
cell_of(g, t) == t[1] + t[2] * g.width + t[3] * g.width * g.height

alive_at(g, t) == in_bounds(g, t) /\ g.cells[cell_of(g, t)] # 0

\* the cells of `within` next to a cell of `from`
step6(g, from, within) ==
    {j \in within :
        \E u \in Faces6(pos(g, j)) : in_bounds(g, u) /\ cell_of(g, u) \in from}

\* the cells of `within` joined to `reached` by a path of 6-adjacent cells of
\* `within`; `edge` holds the cells reached last
RECURSIVE class6(_, _, _, _)
class6(g, reached, edge, within) ==
    IF edge = {} THEN reached
    ELSE CHOOSE r \in {class6(g, reached \cup next, next, within) :
                       next \in {step6(g, edge, within \ reached)}} : TRUE

\* the cells of `within` by their number of 6-connected hops through `within`
\* from the cells `edge`: layers[k] holds the cells at k - 1 hops
RECURSIVE hop_layers(_, _, _, _, _)
hop_layers(g, layers, reached, edge, within) ==
    IF edge = {} THEN layers
    ELSE CHOOSE r \in {hop_layers(g, Append(layers, edge), reached \cup next,
                                  next, within) :
                       next \in {step6(g, edge, within \ reached)}} : TRUE

(***************************************************************************)
(* C4.  The components partition the alive cells: every alive cell index   *)
(* is at exactly one position of exactly one component, no solid cell      *)
(* index is in a component, and the component sizes add up to              *)
(* total_air_cells().                                                      *)
(***************************************************************************)
C4_ComponentsPartition ==
    apc # "idle" =>
        /\ \A i \in AliveCells(context) :
              Cardinality({kj \in {<<k, j>> : k \in 1..Len(components),
                                              j \in 1..NumCells(context)} :
                  /\ kj[2] <= Len(components[kj[1]])
                  /\ components[kj[1]][kj[2]] = i}) = 1
        /\ \A k \in 1..Len(components) :
              Members(components[k]) \subseteq AliveCells(context)
        /\ sum_values([k \in 1..Len(components) |-> Len(components[k])],
                      1, Len(components)) = total_air_cells(context)

\* a grid with solid cells and several components, one of several cells
C4_Witness ==
    /\ apc # "idle"
    /\ Len(components) >= 2
    /\ \E k \in 1..Len(components) : Len(components[k]) >= 3
    /\ total_solid_cells(context) >= 1

(***************************************************************************)
(* C5.  Each component is one 6-connectivity class of alive cells: its     *)
(* members are the alive cells joined to its first member by a path of     *)
(* 6-adjacent alive cells, and no cell of one component is 6-adjacent to a *)
(* cell of another.                                                        *)
(***************************************************************************)
C5_ComponentsAreClasses ==
    apc # "idle" =>
        /\ \A k \in 1..Len(components) :
              /\ components[k] # << >>
              /\ Members(components[k]) =
                    class6(context, {components[k][1]}, {components[k][1]},
                           AliveCells(context))
        /\ \A k, l \in 1..Len(components) :
              k # l => \A i \in Members(components[k]),
                          j \in Members(components[l]) :
                          ~adjacent6(context, i, j)

\* two components that touch only diagonally
C5_Witness ==
    /\ apc # "idle"
    /\ \E k, l \in 1..Len(components) :
          /\ k # l
          /\ \E i \in Members(components[k]), j \in Members(components[l]) :
                pos(context, j) \in Moore26(pos(context, i))
    /\ \E k \in 1..Len(components) : Len(components[k]) >= 3

(***************************************************************************)
(* C6.  The result of percolates for an axis is true iff some component    *)
(* has a cell at coordinate 0 of that axis and a cell at coordinate        *)
(* size - 1 of it; a grid whose alive cells are one straight line along X  *)
(* from 0 to width - 1 that is off the Y and Z boundary faces percolates   *)
(* along X and along neither Y nor Z.                                      *)
(***************************************************************************)
C6_Spans(comp, a) ==
    LET size == <<context.width, context.height, context.depth>>
    IN /\ \E i \in Members(comp) : pos(context, i)[a] = 0
       /\ \E i \in Members(comp) : pos(context, i)[a] = size[a] - 1

C6_XLine ==
    \E y \in 1..(context.height - 2), z \in 1..(context.depth - 2) :
        AliveCells(context) =
            {i \in DOMAIN context.cells :
                pos(context, i)[2] = y /\ pos(context, i)[3] = z}

C6_Percolation ==
    /\ \A a \in 1..Len(percolation) :
          percolation[a] <=>
              \E k \in 1..Len(components) : C6_Spans(components[k], a)
    /\ (C6_XLine /\ Len(percolation) = 3) =>
          percolation = <<TRUE, FALSE, FALSE>>

\* the three results for a line along X off the Y and Z faces
C6_Witness ==
    /\ C6_XLine
    /\ context.width >= 3
    /\ percolation = <<TRUE, FALSE, FALSE>>

(***************************************************************************)
(* C7.  Every solid cell with at least one of its 26 neighbours alive or   *)
(* out of bounds is a surface voxel of RoughnessStats::from_context, once, *)
(* and its value is 1 - (alive in-bounds neighbours) / 26; a solid cell    *)
(* whose 26 neighbours are all in bounds and all alive is one of them.     *)
(***************************************************************************)
C7_Qualifies(t) ==
    /\ ~alive_at(context, t)
    /\ \E u \in Moore26(t) : ~in_bounds(context, u) \/ alive_at(context, u)

C7_SurfaceVoxels ==
    apc \in {"roughness", "done"} =>
        \A t \in {pos(context, i) : i \in DOMAIN context.cells} :
            C7_Qualifies(t) =>
                /\ Cardinality({k \in 1..rough.count : rough.cells[k] = t}) = 1
                /\ \A k \in 1..rough.count :
                      rough.cells[k] = t =>
                          rough.values[k] * 26 =
                              (26 - Cardinality({u \in Moore26(t) :
                                                    alive_at(context, u)})) * rough.max_n

(***************************************************************************)
(* C8.  No surface voxel of RoughnessStats::from_context is an interior    *)
(* solid cell, a solid cell whose 26 neighbours are all in bounds and all  *)
(* solid.                                                                  *)
(***************************************************************************)
C8_Interior(t) ==
    /\ ~alive_at(context, t)
    /\ \A u \in Moore26(t) : in_bounds(context, u) /\ ~alive_at(context, u)

C8_InteriorExcluded ==
    apc \in {"roughness", "done"} =>
        \A k \in 1..rough.count : ~C8_Interior(rough.cells[k])

(***************************************************************************)
(* C9.  The distances of TunnelStats::from_context: the component taken is *)
(* a largest one; its members with a 6-adjacent neighbour out of bounds or *)
(* solid are exactly its members at distance 1; the distance of every      *)
(* member is 1 plus the least number of 6-connected hops through members   *)
(* from such a member; in the fully alive 5x5x5 cube every cell of a       *)
(* boundary face is at distance 1 and the centre is at the largest         *)
(* distance, 3.                                                            *)
(***************************************************************************)
C9_Surface(i) ==
    \E u \in Faces6(pos(context, i)) : ~alive_at(context, u)

C9_Cube5 ==
    /\ context.width = 5 /\ context.height = 5 /\ context.depth = 5
    /\ AliveCells(context) = DOMAIN context.cells

C9_TunnelDistances ==
    (apc = "done" /\ components # << >>) =>
        LET members == Members(tunnel.largest)
            surface == {i \in members : C9_Surface(i)}
        IN /\ \E k \in 1..Len(components) : components[k] = tunnel.largest
           /\ \A k \in 1..Len(components) :
                 Len(components[k]) <= Len(tunnel.largest)
           /\ \A i \in members : tunnel.dist[i] = 1 <=> i \in surface
           /\ \A layers \in {hop_layers(context, << >>, surface, surface,
                                         members)} :
                 /\ members = UNION {layers[k] : k \in 1..Len(layers)}
                 /\ \A k \in 1..Len(layers) :
                       \A i \in layers[k] : tunnel.dist[i] = 1 + (k - 1)
           /\ C9_Cube5 =>
                 /\ \A i \in DOMAIN context.cells :
                       (\E a \in 1..3 : pos(context, i)[a] \in {0, 4})
                           => tunnel.dist[i] = 1
                 /\ tunnel.dist[idx(context, 2, 2, 2)] = 3
                 /\ \A i \in DOMAIN context.cells : tunnel.dist[i] <= 3

\* the distances of the 5x5x5 cube
C9_Witness ==
    /\ apc = "done"
    /\ C9_Cube5
    /\ tunnel.dist[idx(context, 2, 2, 2)] = 3

(***************************************************************************)
(* C10.  With empty birth and survival sets the grid is all solid once one *)
(* step has been made, and stays so: after any step of run, and when run   *)
(* returns from one or more iterations.                                    *)
(***************************************************************************)
C10_EmptyRuleAllSolid ==
    (EmptyRule /\ iter >= 1) => AllSolid(context)

\* run(2) has returned under the empty rule from a grid that had alive cells
C10_Witness ==
    /\ EmptyRule
    /\ pc = "returned"
    /\ iterations = 2
    /\ iter = 2
    /\ log[1].alive > 0

(***************************************************************************)
(* C11.  A constructor call (new, random) with a dimension equal to zero   *)
(* fails, and no grid ever has zero cells.                                 *)
(***************************************************************************)
C11_ZeroDimensionRejected ==
    /\ (call.op \in {"new", "random"} /\ \E a \in 1..3 : call.args[a] = 0)
           => result.panic
    /\ NumCells(context) > 0

(***************************************************************************)
(* C12.  A get or a set with a coordinate out of bounds (x >= width or     *)
(* y >= height or z >= depth) fails: it neither returns the value of a     *)
(* cell nor writes one.                                                    *)
(***************************************************************************)
C12_OutOfBoundsFails ==
    (/\ call.op \in {"get", "set"}
     /\ \/ call.args[1] >= context.width
        \/ call.args[2] >= context.height
        \/ call.args[3] >= context.depth)
        => result.panic

(***************************************************************************)
(* C13.  The aggregates are 0 on empty input and never divide by a zero    *)
(* count: the roughness mean and deviation with no surface voxel, the      *)
(* tunnel mean and deviation with no component, the largest-component      *)
(* ratio with no alive cell, and the mean neighbour count and the porosity *)
(* of a grid without cells.                                                *)
(***************************************************************************)
C13_Zero(q) == ~q.nan /\ ~q.inf /\ q.num = 0 /\ q.den # 0

C13_EmptyAggregatesAreZero ==
    /\ (call.op = "neighbor_stats" /\ NumCells(context) = 0)
           => C13_Zero(result.value.mean)
    /\ call.op = "from_context" =>
          /\ result.value.surface_voxels = 0 =>
                /\ C13_Zero(result.value.roughness_mean)
                /\ C13_Zero(result.value.roughness_var)
          /\ result.value.n_comp = 0 =>
                /\ C13_Zero(result.value.tunnel_radius_mean)
                /\ C13_Zero(result.value.tunnel_radius_var)
          /\ result.value.v_total = 0 => C13_Zero(result.value.lcr)
          /\ NumCells(context) = 0 => C13_Zero(result.value.porosity)

(***************************************************************************)
(* C14.  Under every interleaving of the runs of Runner::run: a push onto  *)
(* the results vector is made by a thread holding the guard and appends    *)
(* that thread's run; at most one thread holds the guard; no thread holds  *)
(* it while simulating or analysing; no run is in the vector twice; and    *)
(* when for_each has returned the vector holds every run once, that is     *)
(* neighborhoods x rulesets x seeds entries.                               *)
(***************************************************************************)
C14_State ==
    /\ Cardinality(holders) <= 1
    /\ \A t \in DOMAIN thread :
          thread[t].pc \in {"simulate", "analyse"} => t \notin holders
    /\ \A k, l \in 1..Len(results) : results[k] = results[l] => k = l
    /\ joined =>
          /\ Len(results) = Len(runs)
          /\ {results[k] : k \in 1..Len(results)} =
                {runs[k] : k \in 1..Len(runs)}

C14_Step ==
    results' # results =>
        \E t \in DOMAIN thread :
            /\ t \in holders /\ t \in holders'
            /\ results' = Append(results, thread[t].run)
            /\ thread[t].run \in {runs[k] : k \in 1..Len(runs)}

C14_SingleAppendUnderLock == [](C14_State) /\ [][C14_Step]_vars

\* all runs are in the vector, pushed out of their order, after a thread
\* has waited for the guard
C14_Witness ==
    /\ joined
    /\ Len(results) >= 4
    /\ results # runs

(***************************************************************************)
(* C15.  run(n) makes n steps and appends n + 1 log lines numbered 0..n;   *)
(* line k < n is computed from the grid as it is just before step k + 1    *)
(* and line n from the final grid; appending a line changes neither grid   *)
(* nor the configuration; the grid changes only by a whole step, which is  *)
(* one run_iteration, so run(0) leaves the grid as it was.                 *)
(***************************************************************************)
C15_State ==
    /\ \A k \in 1..Len(log) : log[k].iter = k - 1
    /\ pc = "run" =>
          /\ Len(log) = iter
          /\ iter >= 1 =>
                log[iter] = log_line(iter - 1, buffer, config.neighborhood)
    /\ pc = "stepping" =>
          /\ Len(log) = iter + 1
          /\ log[iter + 1] = log_line(iter, context, config.neighborhood)
    /\ pc = "returned" =>
          /\ iter = iterations
          /\ Len(log) = iterations + 1
          /\ log[iterations + 1] =
                log_line(iterations, context, config.neighborhood)
          /\ iterations = 0 => context = buffer

C15_Step ==
    /\ Len(log') > Len(log) =>
          /\ context' = context /\ buffer' = buffer /\ config' = config
          /\ Len(log') = Len(log) + 1
          /\ \A k \in 1..Len(log) : log'[k] = log[k]
    /\ context' # context =>
          /\ pc = "stepping" /\ pc' = "run"
          /\ iter' = iter + 1
          /\ context' = sequential_from(context, buffer, 0, config.neighborhood,
                                        config.rule)
    /\ iter' # iter => (pc = "idle" /\ iter' = 0) \/ (pc = "stepping" /\ pc' = "run")

C15_RunLogsEveryStep == [](C15_State) /\ [][C15_Step]_vars

\* run(2) has returned with three lines, from a grid that both steps changed
C15_Witness ==
    /\ pc = "returned"
    /\ iterations = 2
    /\ Len(log) = 3
    /\ log[1].alive # log[2].alive
    /\ log[2].alive # log[3].alive
    /\ context # buffer

(***************************************************************************)
(* C16.  On a grid with positive dimensions idx and pos are inverse to     *)
(* each other: idx of an in-bounds coordinate is an index below            *)
(* width*height*depth whose pos is that coordinate, and pos of an index    *)
(* below width*height*depth is an in-bounds coordinate whose idx is that   *)
(* index.                                                                  *)
(***************************************************************************)
C16_IdxPosInverse ==
    /\ (call.op = "idx" /\ in_bounds(context, call.args)) =>
          /\ ~result.panic
          /\ result.value \in 0..(NumCells(context) - 1)
          /\ pos(context, result.value) = call.args
    /\ (call.op = "pos" /\ call.args[1] < NumCells(context)) =>
          /\ ~result.panic
          /\ in_bounds(context, result.value)
          /\ idx(context, result.value[1], result.value[2], result.value[3])
                = call.args[1]

\* pos of the last index of a grid whose three dimensions differ
C16_Witness ==
    /\ call.op = "pos"
    /\ context.width = 2 /\ context.height = 3 /\ context.depth = 1
    /\ call.args[1] = NumCells(context) - 1
    /\ result.value = <<1, 2, 0>>

(***************************************************************************)
(* C17.  The components are in the order a scan of the cell indices meets  *)
(* them: the first member of each is its smallest cell index, these first  *)
(* members increase strictly along the list, and connected_components run  *)
(* again on the same grid returns the same list.                           *)
(***************************************************************************)
C17_ScanOrder ==
    apc # "idle" =>
        /\ \A k \in 1..Len(components) :
              \A i \in Members(components[k]) : components[k][1] <= i
        /\ \A k, l \in 1..Len(components) :
              k < l => components[k][1] < components[l][1]
        /\ connected_components(context) = components

\* several components, one of them not in index order after its first member
C17_Witness ==
    /\ apc # "idle"
    /\ Len(components) >= 3
    /\ \E k \in 1..Len(components) :
          \E j \in 1..(Len(components[k]) - 1) :
              components[k][j] > components[k][j + 1]

(***************************************************************************)
(* C18.  The current grid and the scratch grid always have the same width, *)
(* height and depth, each with width*height*depth cells, and no step of    *)
(* the engine changes these; at the end of a step the scratch grid is the  *)
(* current grid of before the exchange and the current grid is the scratch *)
(* grid of before it.                                                      *)
(***************************************************************************)
C18_Shape(g) == <<g.width, g.height, g.depth>>

C18_State ==
    /\ C18_Shape(context) = C18_Shape(buffer)
    /\ DOMAIN context.cells = 0..(NumCells(context) - 1)
    /\ DOMAIN buffer.cells = 0..(NumCells(buffer) - 1)

C18_Step ==
    /\ C18_Shape(context') = C18_Shape(context)
    /\ C18_Shape(buffer') = C18_Shape(buffer)
    /\ (pc = "stepping" /\ pc' = "run") =>
          /\ buffer' = context
          /\ context' = buffer

C18_BuffersExchanged == [](C18_State) /\ [][C18_Step]_vars

\* after the second step of a run on a grid with several cells, the scratch
\* grid differing from the current one
C18_Witness ==
    /\ pc = "run"
    /\ iter = 2
    /\ NumCells(context) >= 3
    /\ context # buffer
    /\ total_air_cells(context) >= 1

(***************************************************************************)
(* C19.  Once the engine has completed at least one step, every cell of    *)
(* the current grid holds 0 or 1; the byte sum of count_air_neighbors is   *)
(* then, for every cell, the number of alive in-bounds neighbours, and     *)
(* total_air_cells plus total_solid_cells is width*height*depth.           *)
(*                                                                         *)
(* The counts depend on the current grid and the configuration only, and   *)
(* the current grid changes only in the exchange, which leaves pc = "run": *)
(* they are compared in the states outside the worker phase, where every   *)
(* grid that is ever current occurs.                                       *)
(***************************************************************************)
C19_CountsAlive(g, nb) ==
    \A i \in DOMAIN g.cells :
        LET t == pos(g, i)
        IN count_air_neighbors(g, t[1], t[2], t[3], nb)
              = alive_in_bounds(g, t, nb)

C19_BinaryAfterStep ==
    iter >= 1 =>
        /\ \A i \in DOMAIN context.cells : context.cells[i] \in {0, 1}
        /\ total_air_cells(context) + total_solid_cells(context)
              = NumCells(context)
        /\ pc # "stepping" => C19_CountsAlive(context, config.neighborhood)

\* one step after a start from a grid holding a byte above 1 (now the scratch
\* grid), a cell of the current grid with an alive neighbour
C19_Witness ==
    /\ iter = 1
    /\ pc = "run"
    /\ \E i \in DOMAIN buffer.cells : buffer.cells[i] > 1
    /\ \E i \in DOMAIN context.cells :
          LET t == pos(context, i)
          IN count_air_neighbors(context, t[1], t[2], t[3],
                                 config.neighborhood) >= 1

(***************************************************************************)
(* C20.  The breadth-first pass of the tunnel statistics ends within as    *)
(* many turns as the largest component has cells; every component has a    *)
(* surface seed; the cells pushed on the queue, seeds included, are the    *)
(* members of the largest component, each pushed once; no distance that    *)
(* was set is written again; and every member ends with a distance from 1  *)
(* to the size of the component, so no i32::MAX is among the values.       *)
(***************************************************************************)
\* one turn of the pass, recording the cells pushed and the cells whose
\* distance, already set, was written again
C20_Turn(g, h) ==
    LET after == bfs_step(g, h.st)
    IN [st |-> after,
        pushed |-> h.pushed \o SubSeq(after.queue, Len(h.st.queue),
                                      Len(after.queue)),
        rewritten |-> h.rewritten \cup
            {i \in DOMAIN g.cells :
                after.dist[i] # h.st.dist[i] /\ h.st.dist[i] # I32_MAX},
        turns |-> h.turns + 1]

RECURSIVE C20_Turns(_, _, _)
C20_Turns(g, h, n) ==
    IF h.st.queue = << >> \/ n <= 0 THEN h
    ELSE IF n = 1 THEN C20_Turn(g, h)
         ELSE CHOOSE r \in {C20_Turns(g, half, n - (n \div 2)) :
                             half \in {C20_Turns(g, h, n \div 2)}} : TRUE

C20_History(g, largest) ==
    LET st == seed_state(g, largest)
    IN C20_Turns(g, [st |-> st, pushed |-> st.queue, rewritten |-> {},
                     turns |-> 0], Len(largest))

C20_TunnelPassTerminates ==
    (apc = "done" /\ components # << >>) =>
        \A h \in {C20_History(context, tunnel.largest)} :
            /\ \A k \in 1..Len(components) :
                  /\ components[k] # << >>
                  /\ \E i \in Members(components[k]) : is_seed(context, i)
            /\ h.st.queue = << >>
            /\ h.turns = Len(tunnel.largest)
            /\ h.st.dist = tunnel.dist
            /\ Members(h.pushed) = Members(tunnel.largest)
            /\ Len(h.pushed) = Cardinality(Members(h.pushed))
            /\ h.rewritten = {}
            /\ \A i \in Members(tunnel.largest) :
                  /\ tunnel.dist[i] >= 1
                  /\ tunnel.dist[i] <= Len(tunnel.largest)
            /\ Len(tunnel.values) = Len(tunnel.largest)
            /\ \A k \in 1..Len(tunnel.values) : tunnel.values[k] # I32_MAX

\* a largest component with a member that is no seed and is pushed during the
\* pass at a distance of 2 or more, in a grid with solid cells
C20_Witness ==
    /\ apc = "done"
    /\ total_solid_cells(context) >= 1
    /\ \E i \in Members(tunnel.largest) :
          /\ ~is_seed(context, i)
          /\ tunnel.dist[i] >= 2

====
